---- MODULE Spec2Model ----
(***************************************************************************)
(* State-machine model of GRVTVolumeBot (src/bot.py): the quote-refresh    *)
(* loop of run(), with get_orderbook, cancel_all_orders, place_orders,     *)
(* get_account_volume and the stop checks.                                 *)
(*                                                                         *)
(* Units.  Python floats are modelled by exact integers:                   *)
(*   prices      in ticks of 0.1 (tick_size of round_price);               *)
(*   mid_price   as mid_price_x2 = best_bid + best_ask (twice the mid);    *)
(*   sizes       in steps of 0.001 (step_size of round_size);              *)
(*   volumes     in whole USD;                                             *)
(*   total_loss  in 1/10000 USD (total_volume * spread_bps, undivided);    *)
(*   clock       in seconds; trade timestamps in milliseconds;             *)
(*   target_hours in 1/900 hour, order_size_percent in tenths.             *)
(* None (a missing dict key, Python's None) is the integer -1.             *)
(***************************************************************************)
EXTENDS Integers, Sequences, FiniteSets, TLC

VARIABLES
    pc,                  \* position of the run() coroutine
    cycle_count,         \* self.cycle_count (saturating, see MaxCycleCount)
    book_payload,        \* what fetch_order_book produced (NoPayload once used)
    orderbook,           \* run()'s local orderbook (NoBook is None)
    i,                   \* loop index of the placement loop in progress
    buy_orders,          \* place_orders' local counters
    sell_orders,
    order,               \* arguments of place_orders' last create_order call
    call,                \* exchange call made by the last step ("none": no call)
    call_ok,             \* whether that call returned without raising
    total_volume,        \* self.total_volume
    total_trades,        \* self.total_trades
    total_loss,          \* self.total_loss
    trades_payload,      \* what fetch_my_trades produced (NoTrades once used)
    now,                 \* wall clock (saturating, see MaxTime)
    start_time,          \* self.start_time
    stop_reason,         \* which break left the loop
    interrupted,         \* a KeyboardInterrupt was raised inside the try block
    final_cancel,        \* cancel_all_orders was attempted by the except handler
    create_since_cancel, \* a create_order was issued after the last cancel-all attempt
    max_loss,            \* self.max_loss
    max_orders_to_place, \* self.max_orders_to_place
    refresh_interval,    \* self.refresh_interval
    cycle_start,         \* clock reading when the current iteration began
    waited,              \* the delay slept after the cycle's last exchange call
    cycle_calls,         \* exchange calls of the cycle so far, up to place_orders' return
    cancel_ok,           \* whether the cycle's cancel_all_orders returned normally
    resting,             \* exchange: an order placed since the last cancel attempt rests
    stale                \* exchange: an order placed before the last cancel attempt rests

vars == << pc, cycle_count, book_payload, orderbook, i, buy_orders, sell_orders,
           order, call, call_ok, total_volume, total_trades, total_loss,
           trades_payload, now, start_time, stop_reason, interrupted,
           final_cancel, create_since_cancel, max_loss, max_orders_to_place,
           refresh_interval, cycle_start, waited, cycle_calls, cancel_ok,
           resting, stale >>

-----------------------------------------------------------------------------
(* Bounds of the model *)

\* The clock stops advancing here: only "elapsed >= target" is ever read.
MaxTime == 8
\* cycle_count stops advancing here: it is only read by debug printing.
MaxCycleCount == 2
\* Value datetime.now() returns in initialize().
SessionStart == 1
\* Longest trade history fetch_my_trades returns.
MaxTrades == 2

(* Configuration (GRVTVolumeBot.__init__) *)

spread_bps == 2
leverage == 10
investment_usdc == 1
order_size_percent == 1
orders_per_side == 3
target_volume == 10000
target_hours == 1
RetryDelay == 5

MaxLossChoices == {1, 10}
MaxOrdersChoices == {2, 3}
RefreshChoices == {2, 7}

\* Seconds the awaited fetch_order_book call takes: the time an iteration has
\* spent when it reaches its sleep.
FetchDuration == 1

None == -1

Min(a, b) == IF a <= b THEN a ELSE b

\* Python's truthiness of a number-or-None, and the value of "a or b".
Truthy(v) == v # None /\ v # 0
PyOr(a, b) == IF Truthy(a) THEN a ELSE b

\* Python's round(n/d) for n >= 0, d > 0: nearest integer, ties to even.
PyRound(n, d) ==
    LET q == n \div d
        r == n % d
    IN  IF 2 * r < d THEN q
        ELSE IF 2 * r > d THEN q + 1
        ELSE IF q % 2 = 0 THEN q ELSE q + 1

-----------------------------------------------------------------------------
(* get_orderbook *)

NoBook == [best_bid |-> 0, best_ask |-> 0, mid_price_x2 |-> 0]

\* fetch_order_book raises; the payload is no dict of bids and asks in a known
\* format; a side is empty.
BookKinds == {"raise", "malformed", "empty_side"}

NoPayload == [kind |-> "none", bid |-> 0, ask |-> 0]

\* Best bid / best ask pairs (ticks) a usable or zero-priced book can carry.
BookLevels == { <<1000, 1002>>, <<1000, 1001>>, <<25000, 25001>>,
                <<0, 1002>>, <<1000, 0>> }

BookPayloads ==
    [kind : BookKinds, bid : {0}, ask : {0}]
    \cup { [kind |-> "levels", bid |-> l[1], ask |-> l[2]] : l \in BookLevels }

\* Variant of get_orderbook without the "best price == 0" rejection.
get_orderbook_NoZeroCheck(p) ==
    IF p.kind # "levels" THEN NoBook
    ELSE [best_bid |-> p.bid, best_ask |-> p.ask, mid_price_x2 |-> p.bid + p.ask]

get_orderbook(p) ==
    IF p.kind # "levels" THEN NoBook
    ELSE IF p.bid = 0 \/ p.ask = 0 THEN NoBook
    ELSE [best_bid |-> p.bid, best_ask |-> p.ask, mid_price_x2 |-> p.bid + p.ask]

-----------------------------------------------------------------------------
(* round_price, round_size and the quotes of place_orders *)

\* round(price / tick_size) * tick_size, for the price n/d ticks; in ticks.
round_price(n, d) == PyRound(n, d)

\* round(size / step_size) * step_size, for the size n/d steps; in steps.
round_size(n, d) == PyRound(n, d)

\* Variant of BuyPrice quoting from the best bid: best_bid - half_spread * k * 0.4.
BuyPrice_FromBestBid(ob, k) ==
    round_price(50000 * ob.best_bid - ob.mid_price_x2 * spread_bps * k, 50000)

\* mid_price - spread_amount - i * 0.01 * mid_price, rounded to tick
\* = mid * (10000 - spread_bps - 100 i) / 10000, with mid = mid_price_x2 / 2.
BuyPrice(ob, k) ==
    round_price(ob.mid_price_x2 * (10000 - spread_bps - 100 * k), 20000)

\* Variant of SellPrice taking the rank term off the price.
SellPrice_RankSubtracted(ob, k) ==
    round_price(ob.mid_price_x2 * (10000 + spread_bps - 100 * k), 20000)

\* mid_price + spread_amount + i * 0.01 * mid_price, rounded to tick
SellPrice(ob, k) ==
    round_price(ob.mid_price_x2 * (10000 + spread_bps + 100 * k), 20000)

\* capital * order_size_percent / mid_price, rounded to step.  In USD the mid
\* is mid_price_x2 / 20 and order_size_percent is in tenths, so the size is
\* 2 * capital * pct / mid_price_x2, that is 2000 * capital * pct / mid_price_x2 steps.
OrderSize(ob) ==
    round_size(2000 * (investment_usdc * leverage) * order_size_percent,
               ob.mid_price_x2)

\* Variant of NumOrders without the max_orders_to_place cap.
NumOrders_IgnoresCap == orders_per_side

\* range(min(self.orders_per_side, self.max_orders_to_place))
NumOrders == Min(orders_per_side, max_orders_to_place)

\* Variant of BreakOnFailure leaving the loop on any failure.
BreakOnFailure_Always(k) == TRUE

\* "if i == 0: break" of the except clauses of the placement loops
BreakOnFailure(k) == k = 0

NoOrder == [side |-> "none", rank |-> 0, price |-> 0, size |-> 0]

-----------------------------------------------------------------------------
(* get_account_volume *)

NotADict == [isdict |-> FALSE, timestamp |-> None, time |-> None,
             cost |-> None, amount |-> None]

Trade(ts, tm, c, a) ==
    [isdict |-> TRUE, timestamp |-> ts, time |-> tm, cost |-> c, amount |-> a]

TradeSet ==
    { NotADict,
      Trade(SessionStart * 1000 - 1, None, 5000, None),   \* before the session
      Trade(SessionStart * 1000, None, 5000, 3),          \* at session start
      Trade(None, SessionStart * 1000 + 1000, None, 3),   \* 'time' and 'amount' only
      Trade(SessionStart * 1000 + 1000, None, 0, 3),      \* cost present, zero
      Trade(SessionStart * 1000 + 2000, None, 10000, None),
      Trade(0, None, 10000, None) }                       \* no usable timestamp

RECURSIVE SeqsUpTo(_)
SeqsUpTo(n) ==
    IF n = 0 THEN { <<>> }
    ELSE LET shorter == SeqsUpTo(n - 1)
         IN  shorter \cup { Append(s, t) : s \in { x \in shorter : Len(x) = n - 1 },
                                           t \in TradeSet }

NoTrades == [kind |-> "none", trades |-> <<>>]

TradePayloads ==
    { [kind |-> "raise", trades |-> <<>>], [kind |-> "not_list", trades |-> <<>>] }
    \cup { [kind |-> "list", trades |-> s] : s \in SeqsUpTo(MaxTrades) }

\* The body of "for trade in trades", from index k on.
RECURSIVE TradeLoop(_, _, _, _, _)
TradeLoop(trades, k, st, volume, trade_count) ==
    IF k > Len(trades) THEN << volume, trade_count >>
    ELSE LET trade == trades[k]
             timestamp == PyOr(PyOr(trade.timestamp, trade.time), 0)
             cost == PyOr(PyOr(trade.cost, trade.amount), 0)
         IN  IF ~trade.isdict THEN TradeLoop(trades, k + 1, st, volume, trade_count)
             ELSE IF timestamp = 0 THEN TradeLoop(trades, k + 1, st, volume, trade_count)
             ELSE IF timestamp >= st * 1000
                  THEN TradeLoop(trades, k + 1, st, volume + cost, trade_count + 1)
                  ELSE TradeLoop(trades, k + 1, st, volume, trade_count)

\* Variant of InitialTotals that adds to the totals already held.
InitialTotals_Accumulate(vol, n) == << vol, n >>

\* volume = 0; trade_count = 0 before the loop
InitialTotals(vol, n) == << 0, 0 >>

\* Variant of get_account_volume returning zero totals when the fetch fails.
get_account_volume_ZeroOnFailure(p, st, vol, n) ==
    IF p.kind = "raise" THEN << 0, 0 >>
    ELSE IF p.kind = "not_list" THEN << 0, 0 >>
    ELSE TradeLoop(p.trades, 1, st, InitialTotals(vol, n)[1], InitialTotals(vol, n)[2])

\* Returns << volume, trade_count >>; vol, n are self.total_volume, self.total_trades.
get_account_volume(p, st, vol, n) ==
    IF p.kind = "raise" THEN << vol, n >>
    ELSE IF p.kind = "not_list" THEN << vol, n >>
    ELSE TradeLoop(p.trades, 1, st, InitialTotals(vol, n)[1], InitialTotals(vol, n)[2])

-----------------------------------------------------------------------------
(* The stop checks of run() *)

\* timedelta(hours=target_hours) in seconds, target_hours being in 1/900 hour
timedelta_hours(h) == (h * 3600) \div 900

\* Variant of StopCheck testing the volume target before the loss limit.
StopCheck_VolumeFirst(loss, volume, elapsed, maxloss) ==
    IF volume >= target_volume THEN "VolumeTargetReached"
    ELSE IF loss >= maxloss * 10000 THEN "MaxLossReached"
    ELSE IF elapsed >= timedelta_hours(target_hours) THEN "TimeLimitReached"
    ELSE "None"

\* Variant of StopCheck with a strict volume comparison.
StopCheck_StrictVolume(loss, volume, elapsed, maxloss) ==
    IF loss >= maxloss * 10000 THEN "MaxLossReached"
    ELSE IF volume > target_volume THEN "VolumeTargetReached"
    ELSE IF elapsed >= timedelta_hours(target_hours) THEN "TimeLimitReached"
    ELSE "None"

\* Variant of StopCheck with a strict loss comparison.
StopCheck_StrictLoss(loss, volume, elapsed, maxloss) ==
    IF loss > maxloss * 10000 THEN "MaxLossReached"
    ELSE IF volume >= target_volume THEN "VolumeTargetReached"
    ELSE IF elapsed >= timedelta_hours(target_hours) THEN "TimeLimitReached"
    ELSE "None"

\* if self.total_loss >= self.max_loss / elif self.total_volume >=
\* self.target_volume / elif elapsed >= timedelta(hours=self.target_hours)
StopCheck(loss, volume, elapsed, maxloss) ==
    IF loss >= maxloss * 10000 THEN "MaxLossReached"
    ELSE IF volume >= target_volume THEN "VolumeTargetReached"
    ELSE IF elapsed >= timedelta_hours(target_hours) THEN "TimeLimitReached"
    ELSE "None"

\* Variant of InterruptTarget with no except clause: straight to finally.
InterruptTarget_NoHandler == "finally"

\* Where a KeyboardInterrupt raised inside the try block transfers control.
InterruptTarget == "handler"

LoopPcs == {"loop", "retry_sleep", "cancel", "place_buy", "place_sell",
            "volume", "check", "sleep"}

-----------------------------------------------------------------------------
\* Variant of AfterFetch going from the orderbook straight to placement.
AfterFetch_NoCancel(ob) == IF ob = NoBook THEN "retry_sleep" ELSE "place_buy"

\* "if not orderbook: ... continue", else on to cancel_all_orders()
AfterFetch(ob) == IF ob = NoBook THEN "retry_sleep" ELSE "cancel"

\* Variant of AfterCancel letting the exception of a failed cancel leave the loop.
AfterCancel_Fatal(ok) == IF ok THEN "place_buy" ELSE "finally"

\* Where run() continues after cancel_all_orders(): its except clause absorbs
\* the exception, so the outcome makes no difference.
AfterCancel(ok) == "place_buy"

\* The sleep that follows a call inside its try block is skipped when the call raises.
SleepAfter(ok, delay) == IF ok THEN delay ELSE "none"

Init ==
    /\ pc = "loop"
    /\ cycle_count = 0
    /\ book_payload = NoPayload
    /\ orderbook = NoBook
    /\ i = 0
    /\ buy_orders = 0
    /\ sell_orders = 0
    /\ order = NoOrder
    /\ call = "none"
    /\ call_ok = TRUE
    /\ total_volume = 0
    /\ total_trades = 0
    /\ total_loss = 0
    /\ trades_payload = NoTrades
    /\ now = SessionStart
    /\ start_time = SessionStart
    /\ stop_reason = "None"
    /\ interrupted = FALSE
    /\ final_cancel = FALSE
    /\ create_since_cancel = FALSE
    /\ max_loss \in MaxLossChoices
    /\ max_orders_to_place \in MaxOrdersChoices
    /\ refresh_interval \in RefreshChoices
    /\ cycle_start = SessionStart
    /\ waited = "none"
    /\ cycle_calls = << >>
    /\ cancel_ok = TRUE
    /\ resting = FALSE
    /\ stale = FALSE

config == << start_time, max_loss, max_orders_to_place, refresh_interval >>
totals == << total_volume, total_trades, total_loss >>
placing == << i, buy_orders, sell_orders, order >>
flags == << stop_reason, interrupted, final_cancel >>
exchange == << resting, stale >>
cycle == << cycle_start, waited, cycle_calls, cancel_ok >>

\* self.cycle_count += 1; orderbook = await self.get_orderbook()
FetchBook ==
    /\ pc = "loop"
    /\ \E p \in BookPayloads :
        /\ book_payload' = p
        /\ orderbook' = get_orderbook(p)
        /\ call_ok' = (p.kind # "raise")
    /\ now' = Min(now + FetchDuration, MaxTime)
    /\ cycle_count' = Min(cycle_count + 1, MaxCycleCount)
    /\ cycle_start' = now
    /\ cycle_calls' = << "fetch_order_book" >>
    /\ waited' = "none"
    /\ call' = "fetch_order_book"
    /\ pc' = AfterFetch(orderbook')
    /\ UNCHANGED << placing, totals, trades_payload, config, flags,
                    create_since_cancel, cancel_ok, exchange >>

\* await asyncio.sleep(5); continue
RetrySleep ==
    /\ pc = "retry_sleep"
    /\ now' = Min(now + RetryDelay, MaxTime)
    /\ book_payload' = NoPayload
    /\ cycle_calls' = << >>
    /\ call' = "none"
    /\ pc' = "loop"
    /\ UNCHANGED << cycle_count, orderbook, placing, call_ok, totals, trades_payload,
                    config, flags, create_since_cancel, cycle_start, waited,
                    cancel_ok, exchange >>

\* Variant of cancel_all_orders whose call returns without cancelling anything.
cancel_all_orders_NothingCancelled(ok) ==
    /\ call' = "cancel_all_orders"
    /\ call_ok' = ok
    /\ create_since_cancel' = FALSE
    /\ waited' = SleepAfter(ok, "delay_after_cancel")
    /\ resting' = FALSE
    /\ stale' = (stale \/ resting)

\* cancel_all_orders(): the exchange call, which may raise; the exception is
\* absorbed; await asyncio.sleep(self.delay_after_cancel) follows the call
\* inside the try block.  A call that raises leaves the orders resting: they
\* outlive the attempt as stale orders.  An accepted order rests until cancelled.
cancel_all_orders(ok) ==
    /\ call' = "cancel_all_orders"
    /\ call_ok' = ok
    /\ create_since_cancel' = FALSE
    /\ waited' = SleepAfter(ok, "delay_after_cancel")
    /\ resting' = FALSE
    /\ stale' = IF ok THEN FALSE ELSE (stale \/ resting)

\* await self.cancel_all_orders(), then the prologue of place_orders
CancelInCycle ==
    /\ pc = "cancel"
    /\ \E ok \in BOOLEAN :
        /\ cancel_all_orders(ok)
        /\ cancel_ok' = ok
        /\ pc' = AfterCancel(ok)
    /\ cycle_calls' = Append(cycle_calls, "cancel_all_orders")
    /\ book_payload' = NoPayload
    /\ i' = 0
    /\ buy_orders' = 0
    /\ sell_orders' = 0
    /\ order' = NoOrder
    /\ UNCHANGED << cycle_count, orderbook, totals, trades_payload, now, config,
                    flags, cycle_start >>

\* One iteration of the buy loop
PlaceBuy ==
    /\ pc = "place_buy"
    /\ i < NumOrders
    /\ order' = [side |-> "buy", rank |-> i, price |-> BuyPrice(orderbook, i),
                 size |-> OrderSize(orderbook)]
    /\ call' = "create_order"
    /\ cycle_calls' = Append(cycle_calls, "buy")
    /\ create_since_cancel' = TRUE
    /\ \E ok \in BOOLEAN :
        /\ call_ok' = ok
        /\ waited' = SleepAfter(ok, "delay_between_orders")
        /\ IF ok
           THEN /\ buy_orders' = buy_orders + 1
                /\ resting' = TRUE
                /\ i' = i + 1
                /\ pc' = pc
           ELSE /\ buy_orders' = buy_orders
                /\ resting' = resting
                /\ IF BreakOnFailure(i)
                   THEN i' = 0 /\ pc' = "place_sell"
                   ELSE i' = i + 1 /\ pc' = pc
    /\ UNCHANGED << cycle_count, book_payload, orderbook, sell_orders, totals,
                    trades_payload, now, config, flags, cycle_start, cancel_ok,
                    stale >>

\* The buy loop's range is exhausted; its last order dict is not used again
BuyLoopEnd ==
    /\ pc = "place_buy"
    /\ i >= NumOrders
    /\ i' = 0
    /\ order' = NoOrder
    /\ call' = "none"
    /\ pc' = "place_sell"
    /\ UNCHANGED << cycle_count, book_payload, orderbook, buy_orders, sell_orders,
                    call_ok, totals, trades_payload, now, config, flags,
                    create_since_cancel, cycle, exchange >>

\* One iteration of the sell loop
PlaceSell ==
    /\ pc = "place_sell"
    /\ i < NumOrders
    /\ order' = [side |-> "sell", rank |-> i, price |-> SellPrice(orderbook, i),
                 size |-> OrderSize(orderbook)]
    /\ call' = "create_order"
    /\ cycle_calls' = Append(cycle_calls, "sell")
    /\ create_since_cancel' = TRUE
    /\ \E ok \in BOOLEAN :
        /\ call_ok' = ok
        /\ waited' = SleepAfter(ok, "delay_between_orders")
        /\ IF ok
           THEN /\ sell_orders' = sell_orders + 1
                /\ resting' = TRUE
                /\ i' = i + 1
                /\ pc' = pc
           ELSE /\ sell_orders' = sell_orders
                /\ resting' = resting
                /\ IF BreakOnFailure(i)
                   THEN i' = 0 /\ pc' = "volume"
                   ELSE i' = i + 1 /\ pc' = pc
    /\ UNCHANGED << cycle_count, book_payload, orderbook, buy_orders, totals,
                    trades_payload, now, config, flags, cycle_start, cancel_ok,
                    stale >>

\* The sell loop's range is exhausted; place_orders returns and its locals are gone
SellLoopEnd ==
    /\ pc = "place_sell"
    /\ i >= NumOrders
    /\ i' = 0
    /\ buy_orders' = 0
    /\ sell_orders' = 0
    /\ order' = NoOrder
    /\ cycle_calls' = << >>
    /\ cancel_ok' = TRUE
    /\ waited' = "none"
    /\ call' = "none"
    /\ pc' = "volume"
    /\ UNCHANGED << cycle_count, book_payload, orderbook, call_ok, totals,
                    trades_payload, now, config, flags, create_since_cancel,
                    cycle_start, exchange >>

\* place_orders has returned (its locals are gone);
\* self.total_volume, self.total_trades = await self.get_account_volume()
\* self.total_loss = self.total_volume * (self.spread_bps / 10000)
UpdateVolume ==
    /\ pc = "volume"
    /\ \E p \in TradePayloads :
        LET r == get_account_volume(p, start_time, total_volume, total_trades)
        IN  /\ trades_payload' = p
            /\ call_ok' = (p.kind # "raise")
            /\ total_volume' = r[1]
            /\ total_trades' = r[2]
            /\ total_loss' = r[1] * spread_bps
    /\ i' = 0
    /\ buy_orders' = 0
    /\ sell_orders' = 0
    /\ order' = NoOrder
    /\ cycle_calls' = << >>
    /\ cancel_ok' = TRUE
    /\ waited' = "none"
    /\ call' = "fetch_my_trades"
    /\ pc' = "check"
    /\ UNCHANGED << cycle_count, book_payload, orderbook, now, config, flags,
                    create_since_cancel, cycle_start, exchange >>

\* The three stop checks; a break leaves the try block for the finally clause
CheckStop ==
    /\ pc = "check"
    /\ stop_reason' = StopCheck(total_loss, total_volume, now - start_time, max_loss)
    /\ pc' = IF stop_reason' = "None" THEN "sleep" ELSE "finally"
    /\ trades_payload' = NoTrades
    /\ call' = "none"
    /\ UNCHANGED << cycle_count, book_payload, orderbook, placing, call_ok, totals,
                    now, config, interrupted, final_cancel, create_since_cancel,
                    cycle, exchange >>

\* await asyncio.sleep(self.refresh_interval)
Sleep ==
    /\ pc = "sleep"
    /\ now' = Min(now + refresh_interval, MaxTime)
    /\ call' = "none"
    /\ pc' = "loop"
    /\ UNCHANGED << cycle_count, book_payload, orderbook, placing, call_ok, totals,
                    trades_payload, config, flags, create_since_cancel, cycle,
                    exchange >>

\* KeyboardInterrupt raised at any point of the try block: the exception unwinds
\* the call in progress, whose locals and responses are gone with it.
Interrupt ==
    /\ pc \in LoopPcs
    /\ interrupted' = TRUE
    /\ call' = "none"
    /\ pc' = InterruptTarget
    /\ book_payload' = NoPayload
    /\ trades_payload' = NoTrades
    /\ i' = 0
    /\ buy_orders' = 0
    /\ sell_orders' = 0
    /\ order' = NoOrder
    /\ cycle_calls' = << >>
    /\ waited' = "none"
    /\ cancel_ok' = TRUE
    /\ UNCHANGED << cycle_count, orderbook, call_ok, totals, now, config,
                    stop_reason, final_cancel, create_since_cancel, cycle_start,
                    exchange >>

\* except KeyboardInterrupt: await self.cancel_all_orders()
HandlerCancel ==
    /\ pc = "handler"
    /\ \E ok \in BOOLEAN : cancel_all_orders(ok)
    /\ final_cancel' = TRUE
    /\ pc' = "finally"
    /\ UNCHANGED << cycle_count, book_payload, orderbook, placing, totals,
                    trades_payload, now, config, stop_reason, interrupted,
                    cycle_start, cycle_calls, cancel_ok >>

\* finally: await self.client.close()
Close ==
    /\ pc = "finally"
    /\ call' = "close"
    /\ call_ok' = TRUE
    /\ pc' = "done"
    /\ UNCHANGED << cycle_count, book_payload, orderbook, placing, totals,
                    trades_payload, now, config, flags, create_since_cancel, cycle,
                    exchange >>

\* The steps the coroutine takes on its own
Program ==
    \/ FetchBook
    \/ RetrySleep
    \/ CancelInCycle
    \/ PlaceBuy
    \/ BuyLoopEnd
    \/ PlaceSell
    \/ SellLoopEnd
    \/ UpdateVolume
    \/ CheckStop
    \/ Sleep
    \/ HandlerCancel
    \/ Close

Next == Program \/ Interrupt

Spec == Init /\ [][Next]_vars

\* Every awaited call and sleep returns: the coroutine always takes its next step.
FairSpec == Spec /\ WF_vars(Program)

-----------------------------------------------------------------------------
(* Properties *)

LossHit == total_loss >= max_loss * 10000
VolumeHit == total_volume >= target_volume
TimeHit == now - start_time >= timedelta_hours(target_hours)
Stopped == stop_reason # "None"

\* C1: when the loop is left on a stop condition, a cancel-all is attempted
\* after the last create_order and before the connection is closed.
C1_StopCancelsBeforeClose ==
    (pc = "done" /\ Stopped) => ~create_since_cancel

\* C2: after a KeyboardInterrupt inside the cycle loop no create_order is
\* issued any more, and cancel_all_orders is attempted before client.close.
C2_InterruptCancels ==
    interrupted =>
        /\ pc \in {"handler", "finally", "done"}
        /\ call # "create_order"
        /\ (pc \in {"finally", "done"} => final_cancel /\ ~create_since_cancel)

C2_Witness ==
    /\ pc = "finally"
    /\ interrupted
    /\ final_cancel
    /\ call = "cancel_all_orders"
    /\ call_ok
    /\ stale = FALSE
    /\ cycle_count = 2
    /\ total_trades > 0

\* C3: the stop checks apply in the order loss, volume, time: the reason is
\* MaxLossReached exactly when the loss limit is hit, VolumeTargetReached
\* exactly when it is not and the volume target is, TimeLimitReached exactly
\* when neither is and the time limit is.
C3_StopPriority ==
    (pc = "sleep" \/ Stopped) =>
        /\ (stop_reason = "MaxLossReached") <=> LossHit
        /\ (stop_reason = "VolumeTargetReached") <=> (~LossHit /\ VolumeHit)
        /\ (stop_reason = "TimeLimitReached") <=> (~LossHit /\ ~VolumeHit /\ TimeHit)

C3_Witness ==
    /\ stop_reason = "MaxLossReached"
    /\ VolumeHit
    /\ TimeHit

\* C4 as stated: the cycle that brings total_volume to exactly target_volume
\* stops with VolumeTargetReached.
C4_ExactTargetIsVolumeStop ==
    (Stopped /\ total_volume = target_volume) => stop_reason = "VolumeTargetReached"

\* C4 as amended: that cycle stops in the same cycle, with VolumeTargetReached
\* when total_loss < max_loss and MaxLossReached otherwise; once a stop
\* condition fired the loop is never re-entered (no orderbook fetch, cancel or
\* create_order follows).
C4_ExactTargetStops ==
    [][ /\ (pc = "check" /\ total_volume = target_volume /\ ~interrupted') =>
            /\ pc' = "finally"
            /\ stop_reason' = IF LossHit THEN "MaxLossReached"
                                         ELSE "VolumeTargetReached"
        /\ Stopped =>
            /\ pc' \in {"finally", "done"}
            /\ call' \notin {"fetch_order_book", "cancel_all_orders", "create_order"}
            /\ stop_reason' = stop_reason ]_vars

C4_Witness ==
    /\ pc = "done"
    /\ stop_reason = "VolumeTargetReached"
    /\ total_volume = target_volume

\* C5: a failed create_order at rank 0 ends that side's loop with nothing
\* placed on it, and the sell loop still starts at rank 0; a failure at a
\* later rank goes on to the next rank; both sides alike.
C5_FirstOrderShortCircuit ==
    [][ /\ (pc = "place_buy" /\ call' = "create_order") =>
            /\ order'.side = "buy" /\ order'.rank = i
            /\ IF ~call_ok' /\ i = 0
               THEN pc' = "place_sell" /\ i' = 0 /\ buy_orders' = 0
               ELSE pc' = "place_buy" /\ i' = i + 1
        /\ (pc = "place_sell" /\ call' = "create_order") =>
            /\ order'.side = "sell" /\ order'.rank = i
            /\ IF ~call_ok' /\ i = 0
               THEN pc' = "volume" /\ sell_orders' = 0
               ELSE pc' = "place_sell" /\ i' = i + 1
        /\ (pc = "place_buy" /\ pc' = "place_sell") => i' = 0 ]_vars

C5_Witness ==
    /\ call = "create_order"
    /\ order.side = "sell"
    /\ order.rank = 2
    /\ buy_orders = 0
    /\ sell_orders = 1
    /\ ~call_ok

\* Trades the reconciliation counts: records whose timestamp (or, without
\* one, time) is not before the session start.
InSession(t) ==
    /\ t.isdict
    /\ (IF t.timestamp \notin {None, 0} THEN t.timestamp ELSE t.time)
            >= start_time * 1000

RECURSIVE SumOver(_, _)
SumOver(f, idx) ==
    IF idx = {} THEN 0
    ELSE LET k == CHOOSE x \in idx : TRUE
         IN  f[k] + SumOver(f, idx \ {k})

Counted(trades) == { k \in DOMAIN trades : InSession(trades[k]) }

CostIfPresent(t) ==
    IF t.cost # None THEN t.cost ELSE IF t.amount # None THEN t.amount ELSE 0

CostIfNonZero(t) ==
    IF t.cost \notin {None, 0} THEN t.cost
    ELSE IF t.amount \notin {None, 0} THEN t.amount ELSE 0

Reconciled == pc = "check" /\ trades_payload.kind = "list"

\* C6 as stated: after a successful trade query total_volume is the sum of
\* cost (amount if cost is absent) over the trades of the session.
C6_SumsCostOrAmountIfAbsent ==
    Reconciled =>
        total_volume = SumOver([k \in DOMAIN trades_payload.trades |->
                                    CostIfPresent(trades_payload.trades[k])],
                               Counted(trades_payload.trades))

\* C6 as amended: after a successful trade query total_volume is the sum of
\* cost (amount if cost is absent or zero) over exactly the trades of the
\* session and total_trades is their count, whatever the totals were before;
\* reconciling the same payload again leaves the totals as they are.
C6_ReconcileReplaces ==
    Reconciled =>
        /\ total_volume = SumOver([k \in DOMAIN trades_payload.trades |->
                                       CostIfNonZero(trades_payload.trades[k])],
                                  Counted(trades_payload.trades))
        /\ total_trades = Cardinality(Counted(trades_payload.trades))
        /\ total_loss = total_volume * spread_bps
        /\ get_account_volume(trades_payload, start_time, total_volume, total_trades)
               = << total_volume, total_trades >>

C6_Witness ==
    /\ Reconciled
    /\ cycle_count >= 2
    /\ Len(trades_payload.trades) = 2
    /\ total_trades = 1
    /\ total_volume = 3

\* An orderbook payload the loop cannot quote from.
Unusable(p) ==
    \/ p.kind \in {"raise", "malformed", "empty_side"}
    \/ p.bid = 0
    \/ p.ask = 0

\* C7: an iteration with an unusable orderbook makes no cancel, create_order
\* or trade query, leaves the totals alone and goes on to a later iteration.
C7_UnusableBookSkipped ==
    [][ /\ (pc = "loop" /\ call' = "fetch_order_book" /\ Unusable(book_payload')) =>
            /\ pc' = "retry_sleep"
            /\ totals' = totals
        /\ pc = "retry_sleep" =>
            /\ pc' = "loop" \/ interrupted'
            /\ call' = "none"
            /\ totals' = totals ]_vars

C7_Witness ==
    /\ pc = "retry_sleep"
    /\ book_payload.kind = "levels"
    /\ book_payload.bid = 0
    /\ total_volume > 0

\* C8: every size passed to create_order is at least one step (a size that
\* rounds to zero steps is raised to one step).
C8_SizeAtLeastOneStep ==
    call = "create_order" => order.size >= 1

\* C9: once the session has lasted target_hours the run terminates.
C9_TimeLimitTerminates ==
    TimeHit ~> (pc = "done")

ScenarioA == orderbook.best_bid = 1000 /\ orderbook.best_ask = 1002

Abs(x) == IF x < 0 THEN -x ELSE x

-----------------------------------------------------------------------------
(* Price ladder, cadence and pacing *)

\* C11: within a cycle (one orderbook snapshot, one configuration) a buy order
\* is priced no higher than the buy of every lower rank, and a sell order no
\* lower than the sell of every lower rank, after tick rounding.
C11_PricesOrderedByRank ==
    call = "create_order" =>
        \A k \in 0 .. order.rank - 1 :
            /\ order.side = "buy" => order.price <= BuyPrice(orderbook, k)
            /\ order.side = "sell" => order.price >= SellPrice(orderbook, k)

C11_Witness ==
    /\ call = "create_order"
    /\ order.side = "sell"
    /\ order.rank = 2
    /\ order.price > SellPrice(orderbook, 1)
    /\ SellPrice(orderbook, 1) > SellPrice(orderbook, 0)

Max(a, b) == IF a > b THEN a ELSE b

\* C12: the sleep that ends a completed cycle lasts max(0, refresh_interval -
\* elapsed): the next iteration starts refresh_interval after this one started,
\* or at once when the cycle took longer than that.
C12_SleepsRemainderOfInterval ==
    [][ (pc = "sleep" /\ pc' = "loop") =>
            now' = Min(Max(cycle_start + refresh_interval, now), MaxTime) ]_vars

\* C13: an iteration starts at least refresh_interval after the previous one
\* started, whether that one completed or was skipped for want of an orderbook.
C13_RefreshIntervalIsFloor ==
    [][ (pc \in {"sleep", "retry_sleep"} /\ pc' = "loop" /\ now' < MaxTime) =>
            now' - cycle_start >= refresh_interval ]_vars

\* The create_order calls of the cycle so far on one side.
Creates(side) == { k \in DOMAIN cycle_calls : cycle_calls[k] = side }

\* C14: a cycle's create_order calls come after its cancel_all_orders attempt,
\* which comes after its orderbook fetch, and every buy placement comes before
\* every sell placement; the calls are issued one at a time.
C14_CancelBeforeReplace ==
    (Creates("buy") \cup Creates("sell")) # {} =>
        /\ cycle_calls[1] = "fetch_order_book"
        /\ cycle_calls[2] = "cancel_all_orders"
        /\ \A k \in DOMAIN cycle_calls : k > 2 => cycle_calls[k] \in {"buy", "sell"}
        /\ \A b \in Creates("buy"), a \in Creates("sell") : b < a

C14_Witness ==
    /\ call = "create_order"
    /\ order.side = "sell"
    /\ order.rank = 1
    /\ Creates("buy") # {}

\* C15: the first create_order of a cycle is preceded by a wait of
\* delay_after_cancel, whether the cycle's cancel attempt succeeded or failed.
C15_SettleDelayBeforeFirstOrder ==
    [][ (call' = "create_order" /\ Len(cycle_calls) = 2) =>
            waited = "delay_after_cancel" ]_vars

\* C16: every create_order of a cycle after its first is preceded by a wait of
\* delay_between_orders, whether the create_order before it succeeded or not.
C16_DelayBetweenOrders ==
    [][ (call' = "create_order" /\ Len(cycle_calls) > 2) =>
            waited = "delay_between_orders" ]_vars

\* C17: a cycle issues at most min(orders_per_side, max_orders_to_place)
\* create_order calls per side, successful or not, so at most twice that many.
C17_AttemptsPerSideCapped ==
    LET cap == IF orders_per_side < max_orders_to_place
               THEN orders_per_side ELSE max_orders_to_place
    IN  /\ Cardinality(Creates("buy")) <= cap
        /\ Cardinality(Creates("sell")) <= cap
        /\ Cardinality(Creates("buy") \cup Creates("sell")) <= 2 * cap

C17_Witness ==
    /\ max_orders_to_place < orders_per_side
    /\ Cardinality(Creates("buy")) = max_orders_to_place
    /\ Cardinality(Creates("sell")) = max_orders_to_place
    /\ buy_orders < max_orders_to_place

-----------------------------------------------------------------------------
(* Failures absorbed inside the cycle *)

C19_FailureKeepsTotals ==
    [][ /\ (pc = "volume" /\ pc' = "check"
                /\ trades_payload'.kind \in {"raise", "not_list"}) =>
            /\ total_volume' = total_volume
            /\ total_trades' = total_trades
            /\ total_loss' = total_volume * spread_bps
        /\ (pc = "check" /\ ~interrupted') =>
            /\ pc' \in {"sleep", "finally"}
            /\ stop_reason' = StopCheck(total_loss, total_volume,
                                        now - start_time, max_loss) ]_vars

C19_Witness ==
    /\ pc = "check"
    /\ trades_payload.kind = "raise"
    /\ total_volume > 0
    /\ total_trades > 0

\* The cycle's cancel_all_orders has just raised.
CancelFailed == call = "cancel_all_orders" /\ ~call_ok /\ ~final_cancel

\* C20: a cancel_all_orders that raises inside the cycle does not end the loop:
\* unless interrupted, the cycle goes on to place its orders, reconcile the
\* trades and evaluate the stop conditions, and it reaches the sleep or the
\* shutdown path.
C20_CancelFailureNotFatal ==
    /\ [][ ~interrupted' =>
            /\ (pc = "cancel" => pc' = "place_buy")
            /\ (pc = "place_buy" => (call' = "create_order" \/ pc' = "place_sell"))
            /\ (pc = "place_sell" => (call' = "create_order" \/ pc' = "volume"))
            /\ (pc = "volume" => (call' = "fetch_my_trades" /\ pc' = "check"))
            /\ (pc = "check" => pc' \in {"sleep", "finally"}) ]_vars
    /\ []((~cancel_ok /\ pc = "place_sell") => Creates("buy") # {})
    /\ (CancelFailed ~> pc \in {"sleep", "finally"})

C20_Witness ==
    /\ ~cancel_ok
    /\ pc = "place_sell"
    /\ call = "create_order"
    /\ call_ok
    /\ order.side = "sell"

-----------------------------------------------------------------------------
(* Quotes against each other; loss limit against volume target *)

\* C21: the rank-0 sell of a cycle is priced strictly above the rank-0 buy the
\* same cycle submitted from the same snapshot (best_bid < best_ask, both on
\* the tick grid, spread_bps > 0), after tick rounding.
C21_NoSelfCross ==
    (call = "create_order" /\ order.side = "sell" /\ order.rank = 0
        /\ orderbook.best_bid < orderbook.best_ask
        /\ Creates("buy") # {}) =>
            BuyPrice(orderbook, 0) < order.price

\* Loss limits (USD) at or below the loss estimated at the volume target:
\* target_volume * spread_bps / 10000 >= max_loss.
LossLimitsWithinTarget ==
    { ml \in 1 .. target_volume : target_volume * spread_bps >= ml * 10000 }

====
